---- MODULE Spec2Model ----
(***************************************************************************)
(* Model of src/main.py: the hookah-catering order bot.  The dispatcher    *)
(* starts one task per update and takes no per-user lock.  A handler runs  *)
(* from one await of a transport call to the next: each such segment is    *)
(* one action, and the tasks of a user interleave at these awaits.  The    *)
(* storage calls (MemoryStorage) and the completion call (synchronous) do  *)
(* not suspend.  The session of a user is the MemoryStorage entry of that  *)
(* user: the FSM state and the data dictionary (lang, history,             *)
(* order_details).  Every transport call and the completion call may       *)
(* fail; their outcomes are inputs.                                        *)
(***************************************************************************)
EXTENDS Integers, Sequences, FiniteSets, Bags, TLC

\* ------------------------------------------------------------------ bounds
\* A history of MaxHist or more turns is not made longer: the completion
\* provider stops answering with free text to a handler that read such a
\* history, and the user stops pressing edit in such a session.
MaxHist == 3
\* The user stops pressing confirm once the operator channel holds (or is
\* about to hold) MaxForwards messages.
MaxForwards == 1
\* The completion provider stops extracting orders for a chat that holds
\* MaxLive summary messages with buttons.
MaxLive == 2

\* ------------------------------------------------------------------ users
Users == {"u1", "u2"}
\* The user of the one-user specifications.
SoloUsers == {"u1"}
\* from_user.username of each user ("" = the user has set none)
username(u) == IF u = "u1" THEN "alice" ELSE ""

\* ------------------------------------------------------------------ values
\* A decoded JSON scalar as Python sees it; "missing" marks an absent key.
StrVal(s) == [t |-> "str", n |-> 0, s |-> s]
NumVal(n) == [t |-> "num", n |-> n, s |-> ""]
None == [t |-> "none", n |-> 0, s |-> ""]
Missing == [t |-> "missing", n |-> 0, s |-> ""]

\* TOOLS[0].function.parameters.required
RequiredFields == {"arrival_time", "duration_hours", "hookah_masters_count",
                   "hookahs_count", "location", "phone_number"}

EmptyDict == [f \in RequiredFields |-> Missing]

OrderA == [arrival_time |-> StrVal("tomorrow 20:00"), duration_hours |-> NumVal(3),
           hookah_masters_count |-> NumVal(2), hookahs_count |-> NumVal(5),
           location |-> StrVal("Main St 1"), phone_number |-> StrVal("+1234567890")]
OrderB == [arrival_time |-> StrVal("friday 18:00"), duration_hours |-> NumVal(4),
           hookah_masters_count |-> NumVal(1), hookahs_count |-> NumVal(2),
           location |-> StrVal("Oak Ave 7"), phone_number |-> StrVal("+4812345")]
PartialNoPhone == [OrderA EXCEPT !.phone_number = Missing]

\* tool_call.function.arguments: a JSON text, given by what json.loads
\* makes of it: not JSON at all, a JSON array, or a JSON object.
JsonMalformed == [kind |-> "malformed", obj |-> EmptyDict]
JsonArray == [kind |-> "array", obj |-> EmptyDict]
JsonObject(d) == [kind |-> "object", obj |-> d]
ArgsJson == {JsonMalformed, JsonArray, JsonObject(OrderA), JsonObject(OrderB),
             JsonObject(PartialNoPhone)}

\* json.loads(text): raises on malformed text, else the Python value.
json_loads(text) ==
  [raised |-> text.kind = "malformed",
   value |-> IF text.kind = "object" THEN [py |-> "dict", d |-> text.obj]
             ELSE IF text.kind = "array" THEN [py |-> "list", d |-> EmptyDict]
             ELSE [py |-> "none", d |-> EmptyDict]]

PyNone == [py |-> "none", d |-> EmptyDict]

\* dict.get(key): the value, or None when the key is absent.
Get(d, key) == IF d[key].t = "missing" THEN None ELSE d[key]

\* str(value) as an f-string renders it.
Str(v) == IF v.t = "num" THEN ToString(v.n)
          ELSE IF v.t = "str" THEN v.s
          ELSE "None"

\* ------------------------------------------------------------------ inputs
\* Texts of ordinary messages; "/start" is the command.
Texts == {"hello"}
StartText == "/start"
\* Free-text contents the completion provider answers with.
Replies == {"sure"}

\* Callback payloads, as the list of their '_'-separated parts
\* ("lang_ru" is <<"lang", "ru">>), so that split('_') is the list itself.
\* The three buttons of the prompt, and a payload no button carries.
LangDatas == {<<"lang", "ru">>, <<"lang", "en">>, <<"lang", "pl">>,
              <<"lang", "xx">>}
ConfirmData == <<"confirm", "order">>
EditData == <<"edit", "order">>
CallbackDatas == LangDatas \cup {ConfirmData, EditData}

\* The completion provider's answer to one call.
Timeout == [kind |-> "timeout", content |-> "", name |-> "", arguments |-> JsonMalformed]
Failure == [kind |-> "error", content |-> "", name |-> "", arguments |-> JsonMalformed]
TextReply(c) == [kind |-> "text", content |-> c, name |-> "", arguments |-> JsonMalformed]
ToolCall(nm, a) == [kind |-> "tool", content |-> "", name |-> nm, arguments |-> a]
Completions == {Timeout, Failure}
               \cup {TextReply(c) : c \in Replies}
               \cup {ToolCall("create_hookah_order", a) : a \in ArgsJson}
               \cup {ToolCall("get_weather", JsonObject(OrderA))}

\* ------------------------------------------------------------------ state
VARIABLES
  state,      \* state[u]: FSM state of u in MemoryStorage ("none" = no state)
  data,       \* data[u]: the data dictionary of u in MemoryStorage
  operator,   \* messages delivered to ADMIN_ID, in order
  last,       \* the latest update that was dropped or whose handler ended:
              \* its user, its handler and how it ended
  sinceEdit,  \* sinceEdit[u]: an edit completed and no extraction entered
              \* Confirmation since
  live,       \* live[u]: the summary messages in u's chat that still carry
              \* their confirm/edit buttons: a bag of texts, one copy for
              \* each message
  shown,      \* what the text turn in flight (or the latest one) has left
              \* visible to the user
  pressed,    \* the text of the summary message whose button was pressed
              \* last
  forwards,   \* forwards[u]: operator messages sent for u since u last
              \* entered Confirmation
  tasks       \* tasks[t]: a handler task, suspended at an await or ended

\* The chat transcript and its bookkeeping.
viewvars == <<live, shown, pressed, forwards>>

vars == <<state, data, operator, last, sinceEdit, live, shown, pressed,
          forwards, tasks>>

\* class Conversation(StatesGroup), plus "none" for a finished/unset state.
Conversation == {"waiting_for_language", "active", "confirmation"}

\* The empty data dictionary: no key present.
EmptyData == [keys |-> {}, lang |-> "", history |-> <<>>, order_details |-> PyNone]

\* user_data.get("history", [])
GetHistory(d) == IF "history" \in d.keys THEN d.history ELSE <<>>
\* user_data.get("lang", "ru")
GetLang(d) == IF "lang" \in d.keys THEN d.lang ELSE "ru"
\* user_data.get("order_details")
GetOrderDetails(d) == IF "order_details" \in d.keys THEN d.order_details ELSE PyNone

\* state.update_data(history=h)
update_history(d, h) == [d EXCEPT !.keys = @ \cup {"history"}, !.history = h]
\* state.update_data(order_details=a)
update_order_details(d, a) ==
  [d EXCEPT !.keys = @ \cup {"order_details"}, !.order_details = a]
\* state.update_data(lang=l, history=h)
update_lang_history(d, l, h) ==
  [d EXCEPT !.keys = @ \cup {"lang", "history"}, !.lang = l, !.history = h]

NoEvent == [type |-> "none", data |-> <<>>]
MessageEvent(text) == [type |-> "message", data |-> <<text>>]
CallbackEvent(cd) == [type |-> "callback", data |-> cd]

Done(u, h, ev, branch) == [u |-> u, h |-> h, ev |-> ev, branch |-> branch]


\* ------------------------------------------------------------------- tasks
\* The task slots, and an unused slot.
\*   pc: the await the task is suspended at ("done": the handler ended)
\*   u, kind, ev: the user, the handler and the update of the task
\*   history: the handler's local list of this name
\*   order_details: the order the handler holds (order_details of
\*                  process_confirm_order, arguments of handle_tool_call)
\*   base: the history the handler read      from: the FSM state it began in
\*   disturbed: a /start of the user began while the handler was suspended
\*              at the send of the indicator or of the summary
\*   outcome: what the turn gave the user    branch: how the handler ended
\*   again: the slot held an equal record of an earlier task when this one
\*          took it (two equal updates whose handlers ended at once)
TaskIds == {"t1", "t2"}
Idle == [pc |-> "idle", u |-> "u1", kind |-> "none", ev |-> NoEvent,
         history |-> <<>>, base |-> <<>>, order_details |-> PyNone,
         from |-> "none", disturbed |-> FALSE, outcome |-> "none",
         branch |-> "none", again |-> FALSE]

InFlight(t) == tasks[t].pc \notin {"idle", "done"}

\* A task of handler kind for update ev of user u, suspended at pc.
Task(u, kind, ev, pc) ==
  [Idle EXCEPT !.pc = pc, !.u = u, !.kind = kind, !.ev = ev,
               !.from = state[u]]

\* The dispatcher starts task new in slot t; the tasks that have ended are
\* forgotten.  A task is another one than the task the slot held before,
\* also when the two have the same record.
Started(t, new) ==
  [x \in TaskIds |->
     IF x = t THEN [new EXCEPT !.again = (tasks[t] = new)]
     ELSE IF ~InFlight(x) THEN Idle
     ELSE IF /\ new.kind = "cmd_start"
             /\ tasks[x].u = new.u
             /\ tasks[x].kind = "handle_conversation"
             /\ tasks[x].pc \in {"thinking", "summary"}
     THEN [tasks[x] EXCEPT !.disturbed = TRUE]
     ELSE tasks[x]]

\* Task t is suspended at the await pc of handler kind.
At(t, kind, pc) == tasks[t].kind = kind /\ tasks[t].pc = pc

\* The handler of task t moves on to its next await.
Suspend(t, pc) == tasks' = [tasks EXCEPT ![t].pc = pc]

\* What is kept of task t once its handler has ended.
Ended(t, branch) ==
  [Idle EXCEPT !.pc = "done", !.u = tasks[t].u, !.kind = tasks[t].kind,
               !.ev = tasks[t].ev, !.base = tasks[t].base, !.disturbed = tasks[t].disturbed,
               !.outcome = tasks[t].outcome, !.branch = branch]

\* The handler of task t ends (returns, or raises to the dispatcher).
Return(t, branch) == tasks' = [tasks EXCEPT ![t] = Ended(t, branch)]

\* The handler of task t has ended in this step.
Returned(t) == tasks'[t].pc = "done" /\ tasks'[t] # tasks[t]

\* The bookkeeping of the handler that ended in this step, if any.
Recorded ==
  last' = IF \E t \in TaskIds : Returned(t)
          THEN LET t == CHOOSE x \in TaskIds : Returned(x)
               IN Done(tasks'[t].u, tasks'[t].kind, tasks'[t].ev,
                       tasks'[t].branch)
          ELSE last

\* No update recorded.
Nothing == Done("u1", "none", NoEvent, "none")

Init ==
  /\ state = [u \in Users |-> "none"]
  /\ data = [u \in Users |-> EmptyData]
  /\ operator = <<>>
  /\ last = Nothing
  /\ sinceEdit = [u \in Users |-> FALSE]
  /\ live = [u \in Users |-> EmptyBag]
  /\ shown = {}
  /\ pressed = <<>>
  /\ forwards = [u \in Users |-> 0]
  /\ tasks = [t \in TaskIds |-> Idle]

\* ------------------------------------------------------------------ filters
\* @dp.message_handler(commands=['start'], state='*')
start_filter(u, text) == text = StartText

\* @dp.callback_query_handler(lambda c: c.data.startswith('lang_'),
\*                            state=Conversation.waiting_for_language)
language_filter(u, cd) ==
  /\ Len(cd) >= 2 /\ cd[1] = "lang"
  /\ state[u] = "waiting_for_language"

\* @dp.message_handler(state=Conversation.active); registered after cmd_start
conversation_filter(u, text) ==
  /\ ~start_filter(u, text)
  /\ state[u] = "active"

\* Mutant: the confirm handler registered for every state.
confirm_filter_anystate(u, cd) ==
  cd = ConfirmData

\* @dp.callback_query_handler(lambda c: c.data == 'confirm_order',
\*                            state=Conversation.confirmation)
confirm_filter(u, cd) ==
  /\ cd = ConfirmData
  /\ state[u] = "confirmation"

\* @dp.callback_query_handler(lambda c: c.data == 'edit_order',
\*                            state=Conversation.confirmation)
edit_filter(u, cd) ==
  /\ cd = EditData
  /\ state[u] = "confirmation"


\* ------------------------------------------------------------------ cmd_start
\* Mutant: /start does not call state.finish(): the data stays.
cmd_start_keep_data(u, t) ==
  /\ ~InFlight(t)
  /\ start_filter(u, StartText)
  /\ data' = data
  /\ state' = state
  /\ tasks' = Started(t, Task(u, "cmd_start", MessageEvent(StartText), "answer"))
  /\ UNCHANGED <<operator, sinceEdit>>

\* Mutant: /start resets the storage of every user, not only of u.
cmd_start_reset_all(u, t) ==
  /\ ~InFlight(t)
  /\ start_filter(u, StartText)
  /\ data' = [v \in Users |-> EmptyData]
  /\ state' = [v \in Users |-> "none"]
  /\ tasks' = Started(t, Task(u, "cmd_start", MessageEvent(StartText), "answer"))
  /\ UNCHANGED <<operator, sinceEdit>>

\* l.102-109: state.finish(), then the prompt is sent.
cmd_start(u, t) ==
  /\ ~InFlight(t)
  /\ start_filter(u, StartText)
  /\ data' = [data EXCEPT ![u] = EmptyData]                    \* state.finish()
  /\ state' = [state EXCEPT ![u] = "none"]
  /\ tasks' = Started(t, Task(u, "cmd_start", MessageEvent(StartText), "answer"))
  /\ UNCHANGED <<operator, sinceEdit>>

\* l.109-113: message.answer returned (ok) or raised.
cmd_start_answer(t, ok) ==
  /\ At(t, "cmd_start", "answer")
  /\ state' = IF ok THEN [state EXCEPT ![tasks[t].u] = "waiting_for_language"]
              ELSE state
  /\ Return(t, IF ok THEN "ok" ELSE "raised")
  /\ UNCHANGED <<data, operator, sinceEdit>>

\* ------------------------------------------------ process_language_callback
\* get_system_prompt(lang_code): the prompt differs only in language_name
\* (the Cyrillic names and reminder are written in Latin letters here).
get_system_prompt(lang_code) ==
  <<"system_prompt",
    IF lang_code = "ru" THEN "russkom"
    ELSE IF lang_code = "en" THEN "angliyskom"
    ELSE IF lang_code = "pl" THEN "polskom"
    ELSE "russkom">>

Turn(role, content) == [role |-> role, content |-> content]

\* l.120-123: the prompt message is being deleted.
process_language_callback(u, t, cd) ==
  /\ ~InFlight(t)
  /\ language_filter(u, cd)
  /\ tasks' = Started(t, Task(u, "process_language_callback",
                              CallbackEvent(cd), "delete"))
  /\ UNCHANGED <<state, data, operator, sinceEdit>>

\* l.123-124: callback.message.delete() returned or raised.
process_language_callback_delete(t, ok) ==
  /\ At(t, "process_language_callback", "delete")
  /\ IF ok THEN Suspend(t, "answer") ELSE Return(t, "raised")
  /\ UNCHANGED <<state, data, operator, sinceEdit>>

\* l.124-136: callback.answer() returned or raised; the language and the
\* seeded history are stored and the state is set.
process_language_callback_answer(t, ok) ==
  /\ At(t, "process_language_callback", "answer")
  /\ LET u == tasks[t].u
         lang_code == tasks[t].ev.data[2]         \* callback.data.split('_')[1]
         system_prompt == get_system_prompt(lang_code)
     IN IF ok
        THEN /\ data' = [data EXCEPT ![u] =
                           update_lang_history(@, lang_code,
                                               <<Turn("system", system_prompt)>>)]
             /\ state' = [state EXCEPT ![u] = "active"]
             /\ Suspend(t, "welcome")
        ELSE /\ UNCHANGED <<state, data>>
             /\ Return(t, "raised")
  /\ UNCHANGED <<operator, sinceEdit>>

\* l.136-140: bot.send_message(welcome) returned or raised.
process_language_callback_welcome(t, ok) ==
  /\ At(t, "process_language_callback", "welcome")
  /\ Return(t, IF ok THEN "ok" ELSE "raised")
  /\ UNCHANGED <<state, data, operator, sinceEdit>>

\* ------------------------------------------------------- handle_tool_call
\* l.191-214 on the data dictionary d: the dictionary it leaves, where it
\* stands ("returned": another function name; "raised"; or suspended at
\* the send of the summary) and the arguments the summary renders.
handle_tool_call(d, tool_call) ==
  IF tool_call.name # "create_hookah_order"
  THEN [data |-> d, pc |-> "returned", arguments |-> PyNone]
  ELSE LET parsed == json_loads(tool_call.arguments)
           d1 == update_order_details(d, parsed.value)
       IN IF parsed.raised                       \* json.JSONDecodeError
          THEN [data |-> d, pc |-> "raised", arguments |-> PyNone]
          ELSE IF parsed.value.py # "dict"       \* arguments.get: AttributeError
          THEN [data |-> d1, pc |-> "raised", arguments |-> PyNone]
          ELSE [data |-> d1, pc |-> "summary", arguments |-> parsed.value]

\* l.214-215 and l.171: message.answer(summary) returned or raised.
handle_tool_call_summary(t, ok) ==
  /\ At(t, "handle_conversation", "summary")
  /\ LET u == tasks[t].u
     IN IF ok
        THEN /\ state' = [state EXCEPT ![u] = "confirmation"]
             /\ sinceEdit' = [sinceEdit EXCEPT ![u] = FALSE]
             /\ tasks' = [tasks EXCEPT ![t].pc = "delete",
                                       ![t].outcome = "summary",
                                       ![t].order_details = PyNone]
        ELSE /\ UNCHANGED <<state, sinceEdit>>
             /\ tasks' = [tasks EXCEPT ![t].pc = "erredit",
                                       ![t].order_details = PyNone]
  /\ UNCHANGED <<data, operator>>

\* ----------------------------------------------------- handle_conversation
lang_reminders(lang) ==
  IF lang = "ru" THEN "(Napominanie: otvechay tolko na russkom yazyke)"
  ELSE IF lang = "en" THEN "(Reminder: reply in English only)"
  ELSE IF lang = "pl" THEN "(Przypomnienie: odpowiadaj tylko po polsku)"
  ELSE ""

\* list.pop(): the list without its last element.
Pop(h) == SubSeq(h, 1, Len(h) - 1)

\* l.145-157.  state.get_data() hands out a copy of the stored dictionary,
\* so the list history is local to the handler until
\* update_data(history=...) stores it.
handle_conversation(u, t, text) ==
  /\ ~InFlight(t)
  /\ conversation_filter(u, text)
  /\ LET user_data == data[u]
         lang == GetLang(user_data)
         base == GetHistory(user_data)
         history == Append(base, Turn("user", <<text, lang_reminders(lang)>>))
     IN tasks' = Started(t, [Task(u, "handle_conversation",
                                  MessageEvent(text), "thinking")
                               EXCEPT !.history = history, !.base = base])
  /\ UNCHANGED <<state, data, operator, sinceEdit>>

\* l.157-176: message.answer(thinking) returned or raised; the completion
\* call and its branch, up to the next await.
handle_conversation_thinking(t, ok, resp) ==
  /\ At(t, "handle_conversation", "thinking")
  /\ LET u == tasks[t].u
         h2 == Append(tasks[t].history, Turn("assistant", <<resp.content>>))
         r == handle_tool_call(data[u], resp)
     IN IF ~ok
        THEN /\ Return(t, "raised")
             /\ data' = data
        ELSE IF resp.kind \in {"timeout", "error"}
        THEN /\ Suspend(t, "erredit")
             /\ data' = data
        ELSE IF resp.kind = "text"
        THEN /\ data' = [data EXCEPT ![u] = update_history(@, h2)]
             /\ tasks' = [tasks EXCEPT ![t].pc = "edit", ![t].history = h2,
                                       ![t].outcome = "reply"]
        ELSE /\ data' = [data EXCEPT ![u] = r.data]
             /\ tasks' = [tasks EXCEPT
                            ![t].pc = IF r.pc = "returned" THEN "delete"
                                      ELSE IF r.pc = "raised" THEN "erredit"
                                      ELSE "summary",
                            ![t].order_details = r.arguments]
  /\ UNCHANGED <<state, operator, sinceEdit>>

\* l.171: bot.delete_message returned or raised.
handle_conversation_delete(t, ok) ==
  /\ At(t, "handle_conversation", "delete")
  /\ IF ok THEN Return(t, "ok") ELSE Suspend(t, "erredit")
  /\ UNCHANGED <<state, data, operator, sinceEdit>>

\* l.176: bot.edit_message_text(reply) returned or raised.
handle_conversation_edit(t, ok) ==
  /\ At(t, "handle_conversation", "edit")
  /\ IF ok THEN Return(t, "ok") ELSE Suspend(t, "erredit")
  /\ UNCHANGED <<state, data, operator, sinceEdit>>

\* Either except clause (l.178-187): the error report returned (pop,
\* persist) or raised (the exception leaves the handler before the pop).
handle_conversation_erredit(t, ok) ==
  /\ At(t, "handle_conversation", "erredit")
  /\ IF ok
     THEN /\ data' = [data EXCEPT ![tasks[t].u] =
                        update_history(@, Pop(tasks[t].history))]
          /\ Return(t, "except")
     ELSE /\ data' = data
          /\ Return(t, "except_raised")
  /\ UNCHANGED <<state, operator, sinceEdit>>

\* --------------------------------------------------- process_confirm_order
\* f"@{user.username}" if user.username else f"tg://user?id={user.id}"
user_link(u) ==
  IF username(u) # "" THEN <<"@", username(u)>> ELSE <<"tg://user?id=", u>>

\* The operator-facing summary: its lines, in order, as <<label, value>>.
admin_summary(order_details, link) ==
  << <<"Kogda", Str(Get(order_details, "arrival_time"))>>,
     <<"Na skolko", Str(Get(order_details, "duration_hours"))>>,
     <<"Kalyany", Str(Get(order_details, "hookahs_count"))>>,
     <<"Mastera", Str(Get(order_details, "hookah_masters_count"))>>,
     <<"Kuda", Str(Get(order_details, "location"))>>,
     <<"Telefon", Str(Get(order_details, "phone_number"))>>,
     <<"Klient", link>> >>

\* l.220-236: the stored order is read and rendered, and the operator
\* message is being sent.  order_details.get raises when no dictionary is
\* stored (None or a list).
process_confirm_order(u, t) ==
  /\ ~InFlight(t)
  /\ confirm_filter(u, ConfirmData)
  /\ LET order_details == GetOrderDetails(data[u])
         new == [Task(u, "process_confirm_order", CallbackEvent(ConfirmData),
                      "forward")
                   EXCEPT !.order_details = order_details]
     IN tasks' = Started(t, IF order_details.py # "dict"
                               THEN [Idle EXCEPT !.pc = "done", !.u = u,
                                                 !.kind = new.kind,
                                                 !.ev = new.ev,
                                                 !.branch = "raised"]
                               ELSE new)
  /\ UNCHANGED <<state, data, operator, sinceEdit>>

\* Mutant: the handler goes on although the operator forward raised.
process_confirm_order_forward_ignored(t, ok) ==
  /\ At(t, "process_confirm_order", "forward")
  /\ operator' = IF ok
                 THEN Append(operator, admin_summary(tasks[t].order_details.d,
                                                     user_link(tasks[t].u)))
                 ELSE operator
  /\ Suspend(t, "thanks")
  /\ UNCHANGED <<state, data, sinceEdit>>

\* l.236-238: bot.send_message(ADMIN_ID) returned (the operator has the
\* message) or raised.
process_confirm_order_forward(t, ok) ==
  /\ At(t, "process_confirm_order", "forward")
  /\ IF ok
     THEN /\ operator' = Append(operator,
                                admin_summary(tasks[t].order_details.d,
                                              user_link(tasks[t].u)))
          /\ Suspend(t, "thanks")
     ELSE /\ operator' = operator
          /\ Return(t, "raised")
  /\ UNCHANGED <<state, data, sinceEdit>>

\* l.238-239: callback.message.edit_text(thanks) returned or raised.
process_confirm_order_thanks(t, ok) ==
  /\ At(t, "process_confirm_order", "thanks")
  /\ IF ok THEN Suspend(t, "answer") ELSE Return(t, "raised_after_forward")
  /\ UNCHANGED <<state, data, operator, sinceEdit>>

\* l.239-240: callback.answer() returned or raised; state.finish().
process_confirm_order_answer(t, ok) ==
  /\ At(t, "process_confirm_order", "answer")
  /\ LET u == tasks[t].u
     IN IF ok
        THEN /\ data' = [data EXCEPT ![u] = EmptyData]
             /\ state' = [state EXCEPT ![u] = "none"]
             /\ Return(t, "ok")
        ELSE /\ UNCHANGED <<state, data>>
             /\ Return(t, "raised_after_forward")
  /\ UNCHANGED <<operator, sinceEdit>>

\* ------------------------------------------------------ process_edit_order
ClarificationTurn ==
  Turn("assistant", <<"Polzovatel hochet vnesti izmeneniya v zakaz.">>)

\* l.244: the buttons of the pressed message are being removed.
process_edit_order(u, t) ==
  /\ ~InFlight(t)
  /\ edit_filter(u, EditData)
  /\ tasks' = Started(t, Task(u, "process_edit_order",
                              CallbackEvent(EditData), "markup"))
  /\ UNCHANGED <<state, data, operator, sinceEdit>>

\* l.244-245: edit_reply_markup() returned or raised.
process_edit_order_markup(t, ok) ==
  /\ At(t, "process_edit_order", "markup")
  /\ IF ok THEN Suspend(t, "answer") ELSE Return(t, "raised")
  /\ UNCHANGED <<state, data, operator, sinceEdit>>

\* l.245-255: callback.answer returned or raised; the clarification turn is
\* appended to the stored history.
process_edit_order_answer(t, ok) ==
  /\ At(t, "process_edit_order", "answer")
  /\ LET u == tasks[t].u
         history == Append(GetHistory(data[u]), ClarificationTurn)
     IN IF ok
        THEN /\ data' = [data EXCEPT ![u] = update_history(@, history)]
             /\ Suspend(t, "prompt")
        ELSE /\ data' = data
             /\ Return(t, "raised")
  /\ UNCHANGED <<state, operator, sinceEdit>>

\* l.255-256: callback.message.answer(prompt) returned or raised.
process_edit_order_prompt(t, ok) ==
  /\ At(t, "process_edit_order", "prompt")
  /\ LET u == tasks[t].u
     IN IF ok
        THEN /\ state' = [state EXCEPT ![u] = "active"]
             /\ sinceEdit' = [sinceEdit EXCEPT ![u] = TRUE]
             /\ Return(t, "ok")
        ELSE /\ UNCHANGED <<state, sinceEdit>>
             /\ Return(t, "raised")
  /\ UNCHANGED <<data, operator>>

\* ------------------------------------------------------------- dispatcher
Events == {MessageEvent(t) : t \in Texts \cup {StartText}}
          \cup {CallbackEvent(cd) : cd \in CallbackDatas}

\* Some registered handler accepts the update.
Accepted(u, ev) ==
  IF ev.type = "message"
  THEN start_filter(u, ev.data[1]) \/ conversation_filter(u, ev.data[1])
  ELSE \/ language_filter(u, ev.data)
       \/ confirm_filter(u, ev.data)
       \/ edit_filter(u, ev.data)

\* An update no handler accepts: the dispatcher drops it.
Unhandled(u, ev) ==
  /\ ~Accepted(u, ev)
  /\ last' = Done(u, "none", ev, "ignored")
  /\ UNCHANGED <<state, data, operator, sinceEdit, tasks>>

\* ---------------------------------------------------------- specification
\* The transport calls, by the source line of their await.
Calls == {109, 123, 124, 136, 157, 171, 176, 180, 214, 236, 238, 239,
          244, 245, 255}

\* The outcomes of the call at line when the calls of fails may raise:
\* TRUE = it returned.
Outcomes(line, fails) == IF line \in fails THEN BOOLEAN ELSE {TRUE}

\* The operator messages there are or are about to be.
Forwarding ==
  Len(operator)
  + Cardinality({t \in TaskIds : At(t, "process_confirm_order", "forward")})

Start(u, t) == cmd_start(u, t)

StartAnswer(t, fails) ==
  \E ok \in Outcomes(109, fails) : cmd_start_answer(t, ok)

ChooseLanguage(u, t, langs) ==
  \E cd \in langs : process_language_callback(u, t, cd)

LanguageDelete(t, fails) ==
  \E ok \in Outcomes(123, fails) : process_language_callback_delete(t, ok)

LanguageAnswer(t, fails) ==
  \E ok \in Outcomes(124, fails) : process_language_callback_answer(t, ok)

LanguageWelcome(t, fails) ==
  \E ok \in Outcomes(136, fails) : process_language_callback_welcome(t, ok)

TextMessage(u, t) == \E text \in Texts : handle_conversation(u, t, text)

\* A history of max or more turns is not made longer.
HistoryRoom(h, max) == Len(h) < max

TextThinking(t, fails, resps, max) ==
  \E ok \in Outcomes(157, fails), resp \in resps :
    /\ resp.kind = "text" => HistoryRoom(tasks[t].base, max)
    /\ handle_conversation_thinking(t, ok, resp)

TextSummary(t, fails) ==
  \E ok \in Outcomes(214, fails) : handle_tool_call_summary(t, ok)

TextDelete(t, fails) ==
  \E ok \in Outcomes(171, fails) : handle_conversation_delete(t, ok)

TextEdit(t, fails) ==
  \E ok \in Outcomes(176, fails) : handle_conversation_edit(t, ok)

TextErrEdit(t, fails) ==
  \E ok \in Outcomes(180, fails) : handle_conversation_erredit(t, ok)

Confirm(u, t, max) ==
  /\ Forwarding < max
  /\ process_confirm_order(u, t)

ConfirmForward(t, fails) ==
  \E ok \in Outcomes(236, fails) : process_confirm_order_forward(t, ok)

ConfirmThanks(t, fails) ==
  \E ok \in Outcomes(238, fails) : process_confirm_order_thanks(t, ok)

ConfirmAnswer(t, fails) ==
  \E ok \in Outcomes(239, fails) : process_confirm_order_answer(t, ok)

Edit(u, t, max) ==
  /\ HistoryRoom(GetHistory(data[u]), max)
  /\ process_edit_order(u, t)

EditMarkup(t, fails) ==
  \E ok \in Outcomes(244, fails) : process_edit_order_markup(t, ok)

EditAnswer(t, fails) ==
  \E ok \in Outcomes(245, fails) : process_edit_order_answer(t, ok)

EditPrompt(t, fails) ==
  \E ok \in Outcomes(255, fails) : process_edit_order_prompt(t, ok)

Dropped(u, evs) == \E ev \in evs : Unhandled(u, ev)

\* The slot a new task takes when the tasks of one user run concurrently:
\* the first one that is not in flight.
FirstFree(t) == ~InFlight(t) /\ (t = "t1" \/ InFlight("t1"))

\* Bounds and inputs of the concurrent specifications: one language; every
\* transport call may fail but those in the try block of handle_conversation
\* (l.171, l.176, l.214) and in its except clauses, so that no text handler
\* reaches an except clause.
ConcHist == 2
MaxRepeat == 2
ConcLangDatas == {<<"lang", "ru">>}
ConcFails == Calls \ {171, 176, 180, 214}

\* The dispatcher starts a task for an update of u in slot t.
ConcDispatch(u, t) ==
  /\ FirstFree(t)
  /\ \/ Start(u, t)
     \/ ChooseLanguage(u, t, ConcLangDatas)
     \/ TextMessage(u, t)
     \/ Confirm(u, t, MaxRepeat)
     \/ Edit(u, t, ConcHist)

\* Task t resumes from its await; the completion provider answers with one
\* of resps.
ConcResume(t, resps) ==
  \/ StartAnswer(t, ConcFails)
  \/ LanguageDelete(t, ConcFails)
  \/ LanguageAnswer(t, ConcFails)
  \/ LanguageWelcome(t, ConcFails)
  \/ TextThinking(t, ConcFails, resps, ConcHist)
  \/ TextSummary(t, ConcFails)
  \/ TextDelete(t, ConcFails)
  \/ ConfirmForward(t, ConcFails)
  \/ ConfirmThanks(t, ConcFails)
  \/ ConfirmAnswer(t, ConcFails)
  \/ EditMarkup(t, ConcFails)
  \/ EditAnswer(t, ConcFails)
  \/ EditPrompt(t, ConcFails)

\* The completion provider answers with free text or with one order.
ConcCompletions == {TextReply("sure"),
                    ToolCall("create_hookah_order", JsonObject(OrderA))}

ConcEvents == {CallbackEvent(ConfirmData)}

\* One user's updates, each handled by its own task; the tasks interleave
\* at their awaits.  Here last holds the update the dispatcher has dropped
\* in the latest step, if any: a confirm press after an edit.  The
\* transcript is not followed.
Next ==
  /\ \/ /\ \/ \E u \in SoloUsers, t \in TaskIds : ConcDispatch(u, t)
           \/ \E t \in TaskIds : ConcResume(t, ConcCompletions)
           \/ \E t \in TaskIds : TextEdit(t, ConcFails)
        /\ last' = Nothing
     \/ \E u \in SoloUsers : sinceEdit[u] /\ Dropped(u, ConcEvents)
  /\ UNCHANGED viewvars

Spec == Init /\ [][Next]_vars

\* The completion provider answers every text with one of two orders.
OrderCompletions == {ToolCall("create_hookah_order", JsonObject(OrderA)),
                     ToolCall("create_hookah_order", JsonObject(OrderB))}

\* The same interleaving of one user's handlers, with two different orders
\* and no free-text reply.
OrderNext ==
  /\ \/ \E u \in SoloUsers, t \in TaskIds : ConcDispatch(u, t)
     \/ \E t \in TaskIds : ConcResume(t, OrderCompletions)
  /\ UNCHANGED <<last, viewvars>>

SpecOrder == Init /\ [][OrderNext]_vars

\* The schedules in which one user's updates are handled one at a time (an
\* update is dispatched only when no handler is in flight), with every
\* input and every failure; last follows every handler that ends.
SerialNext ==
  /\ \/ /\ \/ \E u \in SoloUsers :
                \/ Start(u, "t1")
                \/ ChooseLanguage(u, "t1", LangDatas)
                \/ TextMessage(u, "t1")
                \/ Confirm(u, "t1", MaxForwards)
                \/ Edit(u, "t1", MaxHist)
           \/ StartAnswer("t1", Calls)
           \/ LanguageDelete("t1", Calls)
           \/ LanguageAnswer("t1", Calls)
           \/ LanguageWelcome("t1", Calls)
           \/ TextThinking("t1", Calls, Completions, MaxHist)
           \/ TextSummary("t1", Calls)
           \/ TextDelete("t1", Calls)
           \/ TextEdit("t1", Calls)
           \/ TextErrEdit("t1", Calls)
           \/ ConfirmForward("t1", Calls)
           \/ ConfirmThanks("t1", Calls)
           \/ ConfirmAnswer("t1", Calls)
           \/ EditMarkup("t1", Calls)
           \/ EditAnswer("t1", Calls)
           \/ EditPrompt("t1", Calls)
        /\ Recorded
     \/ \E u \in SoloUsers : ~InFlight("t1") /\ Dropped(u, Events)
  /\ UNCHANGED viewvars

SpecSerial == Init /\ [][SerialNext]_vars

TypeOK ==
  /\ \A u \in Users : state[u] \in Conversation \cup {"none"}
  /\ \A u \in Users : data[u].keys \subseteq {"lang", "history", "order_details"}
  /\ \A u \in Users : Len(data[u].history) <= MaxHist + 2
  /\ Len(operator) <= MaxRepeat

\* ------------------------------------------------------------- transcript
\* The user-facing summary of handle_tool_call (lines 197-206): its lines,
\* in order, as <<message key, value>>.
summary(arguments, link) ==
  << <<"summary_when", Str(Get(arguments, "arrival_time"))>>,
     <<"summary_duration", Str(Get(arguments, "duration_hours"))>>,
     <<"summary_hookahs", Str(Get(arguments, "hookahs_count"))>>,
     <<"summary_masters", Str(Get(arguments, "hookah_masters_count"))>>,
     <<"summary_where", Str(Get(arguments, "location"))>>,
     <<"summary_phone", Str(Get(arguments, "phone_number"))>>,
     <<"summary_client", link>> >>

\* What a text turn has left visible: "indicator" (the working indicator
\* of l.157), "reply" (the indicator edited to the assistant text, l.176),
\* "summary" (l.214), "error" (the indicator edited to an error text,
\* l.180/185).  The indicator is deleted at l.171.
Indicator(ok) == IF ok THEN {"indicator"} ELSE {}
Replaced(s, ok, by) == IF ok THEN (s \ {"indicator"}) \cup by ELSE s

\* The chat of u holds fewer than max summary messages with buttons.
LiveRoom(u, max) == BagCardinality(live[u]) < max
\* A message of text m is sent with its buttons, next to the ones there.
Sent(u, m) == [live EXCEPT ![u] = @ (+) SetToBag({m})]
\* One message of text m loses its buttons; the others keep theirs.
Unbuttoned(u, m) == [live EXCEPT ![u] = @ (-) SetToBag({m})]

\* Inputs of the transcript specification.
ViewLangDatas == {<<"lang", "ru">>}
ViewCompletions == {Failure, TextReply("sure"),
                    ToolCall("create_hookah_order", JsonObject(OrderA)),
                    ToolCall("create_hookah_order", JsonObject(OrderB)),
                    ToolCall("get_weather", JsonObject(OrderA))}

\* The steps that leave the transcript as it is.
ViewStart(u, t) == Start(u, t) /\ UNCHANGED viewvars
ViewStartAnswer(t) == StartAnswer(t, Calls) /\ UNCHANGED viewvars
ViewChooseLanguage(u, t) ==
  ChooseLanguage(u, t, ViewLangDatas) /\ UNCHANGED viewvars
ViewLanguageDelete(t) == LanguageDelete(t, Calls) /\ UNCHANGED viewvars
ViewLanguageAnswer(t) == LanguageAnswer(t, Calls) /\ UNCHANGED viewvars
ViewLanguageWelcome(t) == LanguageWelcome(t, Calls) /\ UNCHANGED viewvars
ViewConfirmAnswer(t) == ConfirmAnswer(t, Calls) /\ UNCHANGED viewvars
ViewEditAnswer(t) == EditAnswer(t, Calls) /\ UNCHANGED viewvars
ViewEditPrompt(t) == EditPrompt(t, Calls) /\ UNCHANGED viewvars

\* A text turn begins: nothing of it is visible yet.
ViewTextMessage(u, t) ==
  /\ TextMessage(u, t)
  /\ shown' = {}
  /\ UNCHANGED <<live, pressed, forwards>>

\* The indicator was sent (or not).
ViewTextThinking(t) ==
  /\ \E ok \in BOOLEAN, resp \in ViewCompletions :
       /\ resp.kind = "text" => HistoryRoom(tasks[t].base, MaxHist)
       /\ (resp.kind = "tool"
           /\ handle_tool_call(data[tasks[t].u], resp).pc = "summary")
          => LiveRoom(tasks[t].u, MaxLive)
       /\ handle_conversation_thinking(t, ok, resp)
       /\ shown' = Indicator(ok)
  /\ UNCHANGED <<live, pressed, forwards>>

\* The summary with its buttons was sent (or not): a new message, also
\* when its text is the text of an earlier one.
ViewTextSummary(t) ==
  /\ \E ok \in BOOLEAN :
       /\ handle_tool_call_summary(t, ok)
       /\ shown' = IF ok THEN shown \cup {"summary"} ELSE shown
       /\ live' = IF ok
                  THEN Sent(tasks[t].u, summary(tasks[t].order_details.d,
                                                user_link(tasks[t].u)))
                  ELSE live
       /\ forwards' = IF ok THEN [forwards EXCEPT ![tasks[t].u] = 0]
                      ELSE forwards
  /\ UNCHANGED pressed

\* The indicator was deleted (or not).
ViewTextDelete(t) ==
  /\ \E ok \in BOOLEAN :
       /\ handle_conversation_delete(t, ok)
       /\ shown' = Replaced(shown, ok, {})
  /\ UNCHANGED <<live, pressed, forwards>>

\* The indicator was edited to the reply (or not).
ViewTextEdit(t) ==
  /\ \E ok \in BOOLEAN :
       /\ handle_conversation_edit(t, ok)
       /\ shown' = Replaced(shown, ok, {"reply"})
  /\ UNCHANGED <<live, pressed, forwards>>

\* The indicator was edited to the error text (or not).
ViewTextErrEdit(t) ==
  /\ \E ok \in BOOLEAN :
       /\ handle_conversation_erredit(t, ok)
       /\ shown' = Replaced(shown, ok, {"error"})
  /\ UNCHANGED <<live, pressed, forwards>>

\* The user presses the confirm button of a summary m that still has it.
ViewConfirm(u, t) ==
  /\ ~InFlight(t)
  /\ Forwarding < MaxRepeat
  /\ \E m \in BagToSet(live[u]) :
       /\ pressed' = m
       /\ IF confirm_filter(u, ConfirmData)
          THEN process_confirm_order(u, t) /\ Recorded
          ELSE Unhandled(u, CallbackEvent(ConfirmData))
  /\ UNCHANGED <<live, shown, forwards>>

\* The operator message was sent (or not).
ViewConfirmForward(t) ==
  /\ \E ok \in BOOLEAN :
       /\ process_confirm_order_forward(t, ok)
       /\ forwards' = IF ok THEN [forwards EXCEPT ![tasks[t].u] = @ + 1]
                      ELSE forwards
  /\ UNCHANGED <<live, shown, pressed>>

\* callback.message.edit_text(thanks) at l.238 replaces the pressed message
\* and drops its buttons; a message of the same text keeps its own.
ViewConfirmThanks(t) ==
  /\ \E ok \in BOOLEAN :
       /\ process_confirm_order_thanks(t, ok)
       /\ live' = IF ok THEN Unbuttoned(tasks[t].u, pressed) ELSE live
  /\ UNCHANGED <<shown, pressed, forwards>>

\* The user presses the edit button of a summary m that still has it.
ViewEdit(u, t) ==
  /\ ~InFlight(t)
  /\ HistoryRoom(GetHistory(data[u]), MaxHist)
  /\ \E m \in BagToSet(live[u]) :
       /\ pressed' = m
       /\ IF edit_filter(u, EditData)
          THEN process_edit_order(u, t) /\ Recorded
          ELSE Unhandled(u, CallbackEvent(EditData))
  /\ UNCHANGED <<live, shown, forwards>>

\* callback.message.edit_reply_markup() at l.244 drops the buttons of the
\* pressed message; a message of the same text keeps its own.
ViewEditMarkup(t) ==
  /\ \E ok \in BOOLEAN :
       /\ process_edit_order_markup(t, ok)
       /\ live' = IF ok THEN Unbuttoned(tasks[t].u, pressed) ELSE live
  /\ UNCHANGED <<shown, pressed, forwards>>

\* A text message outside Active: no handler accepts it.
ViewDropped(u, t) ==
  /\ ~InFlight(t)
  /\ \E text \in Texts : Unhandled(u, MessageEvent(text))
  /\ UNCHANGED viewvars

\* One user's updates, handled one at a time, with the chat transcript:
\* a confirm or edit press needs a message that still shows the button.
ViewNext ==
  \/ /\ \/ \E u \in SoloUsers :
             \/ ViewStart(u, "t1")
             \/ ViewChooseLanguage(u, "t1")
             \/ ViewTextMessage(u, "t1")
        \/ ViewStartAnswer("t1")
        \/ ViewLanguageDelete("t1")
        \/ ViewLanguageAnswer("t1")
        \/ ViewLanguageWelcome("t1")
        \/ ViewTextThinking("t1")
        \/ ViewTextSummary("t1")
        \/ ViewTextDelete("t1")
        \/ ViewTextEdit("t1")
        \/ ViewTextErrEdit("t1")
        \/ ViewConfirmForward("t1")
        \/ ViewConfirmThanks("t1")
        \/ ViewConfirmAnswer("t1")
        \/ ViewEditMarkup("t1")
        \/ ViewEditAnswer("t1")
        \/ ViewEditPrompt("t1")
     /\ Recorded
  \/ \E u \in SoloUsers :
       \/ ViewConfirm(u, "t1")
       \/ ViewEdit(u, "t1")
       \/ ViewDropped(u, "t1")

SpecView == Init /\ [][ViewNext]_vars

\* -------------------------------------------------------------- two users
\* The slot of each user's task.
slot(u) == IF u = "u1" THEN "t1" ELSE "t2"

\* Inputs of the two-user specification; the deletion of the indicator
\* (l.171) and the operator forward (l.236) may fail.
PairLangDatas == {<<"lang", "ru">>, <<"lang", "pl">>}
PairCompletions == {TextReply("sure"),
                    ToolCall("create_hookah_order", JsonObject(OrderA))}
PairFails == {171, 236}

\* The handlers of two users, interleaved at their awaits in every order
\* (each user's own updates one at a time).
PairNext ==
  /\ \/ \E u \in Users :
          \/ Start(u, slot(u))
          \/ ChooseLanguage(u, slot(u), PairLangDatas)
          \/ TextMessage(u, slot(u))
          \/ Confirm(u, slot(u), MaxForwards)
          \/ Edit(u, slot(u), ConcHist)
     \/ \E t \in TaskIds :
          \/ StartAnswer(t, PairFails)
          \/ LanguageDelete(t, PairFails)
          \/ LanguageAnswer(t, PairFails)
          \/ LanguageWelcome(t, PairFails)
          \/ TextThinking(t, PairFails, PairCompletions, ConcHist)
          \/ TextSummary(t, PairFails)
          \/ TextDelete(t, PairFails)
          \/ TextEdit(t, PairFails)
          \/ TextErrEdit(t, PairFails)
          \/ ConfirmForward(t, PairFails)
          \/ ConfirmThanks(t, PairFails)
          \/ ConfirmAnswer(t, PairFails)
          \/ EditMarkup(t, PairFails)
          \/ EditAnswer(t, PairFails)
          \/ EditPrompt(t, PairFails)
  /\ Recorded
  /\ UNCHANGED viewvars

SpecPair == Init /\ [][PairNext]_vars

\* -------------------------------------------------- concurrent language
\* One user's /start commands and language presses, each handled by its
\* own task, with every payload and every failure.
LangNext ==
  /\ \/ \E u \in SoloUsers, t \in TaskIds :
          /\ FirstFree(t)
          /\ \/ Start(u, t)
             \/ ChooseLanguage(u, t, LangDatas)
     \/ \E t \in TaskIds :
          \/ StartAnswer(t, Calls)
          \/ LanguageDelete(t, Calls)
          \/ LanguageAnswer(t, Calls)
          \/ LanguageWelcome(t, Calls)
  /\ UNCHANGED <<last, viewvars>>

SpecLang == Init /\ [][LangNext]_vars

\* ------------------------------------------------------------------ claims
IsUser(t) == t.role = "user"
IsAssistant(t) == t.role = "assistant"

\* Every user turn of h is immediately followed by an assistant turn (so h
\* does not end with a user turn).
Paired(h) ==
  \A i \in 1..Len(h) : IsUser(h[i]) => (i < Len(h) /\ IsAssistant(h[i + 1]))

\* No handler of user u is in flight.
Quiet(u) == \A t \in TaskIds : InFlight(t) => tasks[t].u # u

\* The handler kind of task t has ended with branch, and no update has
\* been dispatched since.
Finished(t, kind, branch) ==
  tasks[t].pc = "done" /\ tasks[t].kind = kind /\ tasks[t].branch = branch

\* Task t was suspended and has resumed in this step.
Stepped(t) == InFlight(t) /\ tasks'[t].pc # tasks[t].pc

\* A new task has been dispatched into slot t in this step.
Dispatched(t) ==
  ~InFlight(t) /\ tasks'[t].pc # "idle" /\ tasks'[t] # tasks[t]

\* handle_conversation ran an except clause to its end.
TookExcept(t) == Finished(t, "handle_conversation", "except")

\* C1: with one user's updates handled one at a time, after every completed
\* handler the persisted history never ends with a user turn, and every
\* user turn is immediately followed by an assistant turn.
C1_HistoryPairing ==
  \A u \in Users : Quiet(u) => Paired(GetHistory(data[u]))

\* C2: whenever handle_conversation takes a failure branch, the persisted
\* history after the handler equals the persisted history before the
\* user's message was received.
C2_RollbackOnFailure ==
  [][\A t \in TaskIds :
       (Returned(t) /\ tasks'[t].kind = "handle_conversation"
                    /\ tasks'[t].branch = "except") =>
         GetHistory(data'[tasks'[t].u]) = tasks'[t].base]_vars

\* C3: whenever handle_conversation takes a failure branch, the session
\* state after the handler is Active.
C3_FailureKeepsActive ==
  \A t \in TaskIds : TookExcept(t) => state[tasks[t].u] = "active"

\* All six required fields are present in the stored value.
IsFullOrder(v) ==
  /\ v.py = "dict"
  /\ \A f \in RequiredFields : v.d[f].t # "missing"

\* C4: order_details is stored only from a payload in which all six
\* required fields are present; a payload missing a field never produces
\* a stored order_details and never moves the session to Confirmation.
C4_ExtractionAtomicity ==
  \A u \in Users :
    Quiet(u) =>
      /\ "order_details" \in data[u].keys => IsFullOrder(data[u].order_details)
      /\ state[u] = "confirmation" => IsFullOrder(GetOrderDetails(data[u]))

\* C5: in every session state a completed handler leaves, if order_details
\* is stored then the session state is Confirmation.
C5_PendingOnlyInConfirmation ==
  \A u \in Users :
    (Quiet(u) /\ "order_details" \in data[u].keys) =>
      state[u] = "confirmation"

\* C6: after the edit handler completes from Confirmation, order_details is
\* absent, an assistant clarification turn has been appended to history,
\* and the state is Active.
C6_EditDiscardsPending ==
  \A t \in TaskIds :
    Finished(t, "process_edit_order", "ok") =>
      LET u == tasks[t].u
          h == GetHistory(data[u])
      IN /\ "order_details" \notin data[u].keys
         /\ Len(h) > 0 /\ h[Len(h)] = ClarificationTurn
         /\ state[u] = "active"

\* C7: after an edit (the edit handler has moved the session to Active), a
\* confirm button press has no effect until a new extraction has moved the
\* session back to Confirmation: no confirm handler is started for it, and
\* dropping it changes neither the session nor the operator channel.
C7_NoConfirmWithoutExtraction ==
  [][\A u \in Users :
       sinceEdit[u] =>
         /\ \A t \in TaskIds :
              ~(/\ Dispatched(t)
                /\ tasks'[t].u = u
                /\ tasks'[t].kind = "process_confirm_order")
         /\ (last' # last /\ last'.u = u
                          /\ last'.ev = CallbackEvent(ConfirmData)) =>
              (state' = state /\ data' = data /\ operator' = operator)]_vars

\* Witness of C7: a confirm press after an edit, with the order of the
\* earlier extraction still stored, was dropped.
C7_Witness ==
  /\ last.ev = CallbackEvent(ConfirmData)
  /\ last.branch = "ignored"
  /\ sinceEdit[last.u]
  /\ state[last.u] = "active"
  /\ "order_details" \in data[last.u].keys

\* The operator message m carries the six values of the order od and the
\* client reference of u.
CarriesOrder(m, od, u) ==
  /\ Len(m) = 7
  /\ m[1][2] = Str(Get(od, "arrival_time"))
  /\ m[2][2] = Str(Get(od, "duration_hours"))
  /\ m[3][2] = Str(Get(od, "hookahs_count"))
  /\ m[4][2] = Str(Get(od, "hookah_masters_count"))
  /\ m[5][2] = Str(Get(od, "location"))
  /\ m[6][2] = Str(Get(od, "phone_number"))
  /\ m[7][2] = IF username(u) = "" THEN <<"tg://user?id=", u>>
               ELSE <<"@", username(u)>>

\* C8: the confirm handler holds the pending order that is stored when the
\* press is handled; the only message it sends to the operator carries the
\* six values of that order and a client reference; every session disposal
\* by the handler comes after that message; and if the forward fails the
\* handler ends without disposing (or changing) the session.
C8_ConfirmForwardsThenDisposes ==
  [][\A t \in TaskIds :
       LET u == tasks'[t].u
       IN /\ (Dispatched(t) /\ tasks'[t].kind = "process_confirm_order") =>
               /\ InFlight(t)' =>
                    tasks'[t].order_details = GetOrderDetails(data[u])
               /\ state' = state /\ data' = data /\ operator' = operator
          /\ (Stepped(t) /\ tasks[t].kind = "process_confirm_order") =>
               /\ operator' # operator =>
                    /\ tasks[t].pc = "forward"
                    /\ Len(operator') = Len(operator) + 1
                    /\ SubSeq(operator', 1, Len(operator)) = operator
                    /\ CarriesOrder(operator'[Len(operator')],
                                    tasks[t].order_details.d, u)
               /\ (state'[u] # state[u] \/ data'[u] # data[u]) =>
                    /\ state'[u] = "none" /\ data'[u] = EmptyData
                    /\ \E i \in 1..Len(operator) :
                         CarriesOrder(operator[i],
                                      tasks[t].order_details.d, u)
               /\ (tasks[t].pc = "forward" /\ operator' = operator) =>
                    /\ state' = state /\ data' = data
                    /\ ~InFlight(t)']_vars

\* Witness of C8: confirm forwarded the order it held and disposed a
\* session while another handler of the user was in flight.
C8_Witness ==
  \E t \in TaskIds :
    /\ Finished(t, "process_confirm_order", "ok")
    /\ state[tasks[t].u] = "none"
    /\ data[tasks[t].u] = EmptyData
    /\ Len(operator) >= 1
    /\ ~Quiet(tasks[t].u)

\* C9: once confirm has disposed the session, the next inbound message of
\* that user (not only /start) starts a new session: the user is taken to
\* AwaitingLanguage.
C9_MessageAfterDisposalStartsSession ==
  [][(/\ last.h = "process_confirm_order" /\ last.branch = "ok"
      /\ last' # last
      /\ last'.u = last.u
      /\ last'.ev.type = "message"
      /\ last'.branch \in {"ok", "ignored"}) =>
       state'[last.u] = "waiting_for_language"]_vars

\* C10: once the session state has left AwaitingLanguage, no handler other
\* than /start changes the language the session holds, as long as the
\* session exists (confirm disposes the session as a whole).
C10_LanguageImmutable ==
  [][\A t \in TaskIds :
       LET u == tasks[t].u
       IN (/\ Stepped(t)
           /\ tasks[t].kind # "cmd_start"
           /\ state[u] # "waiting_for_language"
           /\ "lang" \in data[u].keys) =>
            \/ ("lang" \in data'[u].keys /\ data'[u].lang = data[u].lang)
            \/ (/\ tasks[t].kind = "process_confirm_order"
                /\ state'[u] = "none" /\ data'[u] = EmptyData)]_vars

\* The keys of lang_map in get_system_prompt: the supported codes.
SupportedLangs == {"ru", "en", "pl"}

\* C11: the language stored in a session is one of the supported codes
\* ru, en, pl; an unsupported code is replaced by the default, not stored.
C11_LanguageValidated ==
  \A u \in Users : "lang" \in data[u].keys => data[u].lang \in SupportedLangs

\* C12: /start is accepted in every state, and with the updates handled
\* one at a time, after /start followed by a language choice the session
\* holds exactly the system turn of the chosen language, no order_details,
\* the chosen language, and state Active.
C12_RestartDiscards ==
  /\ \A u \in Users : Accepted(u, MessageEvent(StartText))
  /\ \A t \in TaskIds :
       Finished(t, "process_language_callback", "ok") =>
         LET u == tasks[t].u
             code == tasks[t].ev.data[2]
         IN /\ state[u] = "active"
            /\ data[u].keys = {"lang", "history"}
            /\ data[u].lang = code
            /\ data[u].history = <<Turn("system", get_system_prompt(code))>>

\* Witness of C12: a language was chosen after a restart of a session that
\* had gone through an extraction and an edit (it held an order and a
\* longer history).
C12_Witness ==
  \E t \in TaskIds :
    /\ Finished(t, "process_language_callback", "ok")
    /\ sinceEdit[tasks[t].u]
    /\ state[tasks[t].u] = "active"
    /\ Len(data[tasks[t].u].history) = 1

\* The state changes the specification's state machine allows: from the
\* state a handler began in to the state it leaves.
AllowedTransition(s, t, h) ==
  \/ s = t
  \/ s = "waiting_for_language" /\ t = "active"
       /\ h = "process_language_callback"
  \/ s = "active" /\ t = "confirmation" /\ h = "handle_conversation"
  \/ s = "confirmation" /\ t = "none" /\ h = "process_confirm_order"
  \/ s = "confirmation" /\ t = "active" /\ h = "process_edit_order"
  \/ t = "waiting_for_language" /\ h = "cmd_start"

\* C13: with one user's updates handled one at a time, every handler that
\* ends has changed the session state only by AwaitingLanguage->Active,
\* Active->Confirmation, Confirmation->disposed, Confirmation->Active or
\* any->AwaitingLanguage (/start), and a dropped update changes nothing.
C13_AllowedTransitionsOnly ==
  [][/\ \A t \in TaskIds :
          (Stepped(t) /\ Returned(t)) =>
            AllowedTransition(tasks[t].from, state'[tasks[t].u],
                              tasks[t].kind)
     /\ (\A t \in TaskIds : tasks'[t] = tasks[t]) => state' = state]_vars

\* C15: after an accepted extraction the persisted history is the pre-turn
\* history plus exactly the user turn of the triggering message.
C15_ExtractionKeepsUserTurn ==
  [][\A t \in TaskIds :
       (/\ Returned(t)
        /\ tasks'[t].kind = "handle_conversation"
        /\ tasks'[t].branch = "ok"
        /\ tasks'[t].outcome = "summary") =>
         LET u == tasks'[t].u
         IN GetHistory(data'[u]) =
              Append(tasks'[t].base,
                     Turn("user", <<tasks'[t].ev.data[1],
                                    lang_reminders(GetLang(data'[u]))>>))]_vars

\* The six values a summary or operator message shows, in order.
Values(m) == [i \in 1..6 |-> m[i][2]]

\* C17: whenever a confirm press leads to an operator forward, the six
\* forwarded values equal the six values shown in the summary message whose
\* confirm button was pressed.
C17_OperatorGetsConfirmedOrder ==
  [][\A t \in TaskIds :
       (/\ Stepped(t)
        /\ tasks[t].kind = "process_confirm_order"
        /\ Len(operator') > Len(operator)) =>
         Values(operator'[Len(operator')]) = Values(pressed)]_vars

\* C18: each entry into Confirmation results in at most one message to the
\* operator channel, whatever confirm presses and transport failures
\* follow.
C18_OneForwardPerExtraction ==
  \A u \in Users : forwards[u] <= 1

\* C19: when the handler of a text message in Active finishes, the user
\* has been shown exactly one of an assistant reply, an order summary, or
\* an error message.
C19_VisibleOutcome ==
  \A t \in TaskIds :
    (\/ Finished(t, "handle_conversation", "ok")
     \/ Finished(t, "handle_conversation", "except")) =>
      Cardinality(shown \cap {"reply", "summary", "error"}) = 1

\* C14: for every interleaving of the handlers of two users, no step of a
\* handler of one user changes the state, language, history or
\* order_details of the other user.
C14_CrossSessionIsolation ==
  [][\A t \in TaskIds :
       (Stepped(t) \/ Dispatched(t)) =>
         \A v \in Users \ {tasks'[t].u} :
           state'[v] = state[v] /\ data'[v] = data[v]]_vars

\* Witness of C14: u2 confirmed and its session was disposed while u1 was
\* in Confirmation with its own order and history.
C14_Witness ==
  /\ Finished(slot("u2"), "process_confirm_order", "ok")
  /\ tasks[slot("u2")].u = "u2"
  /\ state["u2"] = "none"
  /\ state["u1"] = "confirmation"
  /\ "order_details" \in data["u1"].keys
  /\ Len(GetHistory(data["u1"])) >= 2

\* Two text tasks of one user have ended that read the same history (each
\* read it before the other wrote), both got a free-text reply, and no
\* /start interfered.
BothReplied(a, b) ==
  /\ a # b
  /\ tasks[a].u = tasks[b].u
  /\ \A t \in {a, b} :
       /\ Finished(t, "handle_conversation", "ok")
       /\ tasks[t].outcome = "reply"
       /\ ~tasks[t].disturbed
  /\ tasks[a].base = tasks[b].base

\* C16: if two text messages of one user are handled as concurrent tasks
\* and both receive a free-text reply, the persisted history afterwards
\* contains both user turns and both assistant replies.
C16_NoLostTurns ==
  \A a, b \in TaskIds :
    BothReplied(a, b) =>
      LET h == GetHistory(data[tasks[a].u])
          base == tasks[a].base
      IN /\ Len(h) = Len(base) + 4
         /\ SubSeq(h, 1, Len(base)) = base
         /\ Cardinality({i \in Len(base) + 1 .. Len(h) : IsUser(h[i])}) = 2
         /\ Cardinality({i \in Len(base) + 1 .. Len(h) : IsAssistant(h[i])}) = 2

\* C20: if /start is handled while an earlier text handler of the same
\* user is suspended (at the indicator send or the summary send), then
\* once both handlers have finished the session is AwaitingLanguage with
\* no history, language or order_details.
C20_RestartWins ==
  \A s, t \in TaskIds :
    (/\ tasks[s].pc = "done" /\ tasks[s].kind = "cmd_start"
     /\ tasks[t].pc = "done" /\ tasks[t].kind = "handle_conversation"
     /\ tasks[t].disturbed
     /\ tasks[s].u = tasks[t].u) =>
      /\ state[tasks[t].u] = "waiting_for_language"
      /\ data[tasks[t].u] = EmptyData

====
